---- MODULE Spec2Model ----
(***************************************************************************)
(* Model of the letters-game server (src/server.js): the in-process game   *)
(* registry `games` and the three request handlers createGame, setGameDict *)
(* and makeMove, with the helpers they call.  Request payloads are JSON    *)
(* values as body-parser delivers them; JavaScript's coercions in the      *)
(* helpers are modelled as the language defines them.                      *)
(***************************************************************************)
EXTENDS Integers, Sequences, FiniteSets, TLC

VARIABLES games,    \* server.js:6   the array of Game objects
          pushDict, \* the `dict` property of the function games["push"]
          res,      \* the response to the last request
          calls,    \* per client, its move in flight and how far it got
          running,  \* the client whose makeMove is running, 0 for none
          scan      \* tiles.every(isConsecutiveNeighbor), element by element

vars == <<games, pushDict, res, calls, running, scan>>

(***************************************************************************)
(* Bounds of the model.                                                    *)
(***************************************************************************)
MaxGames == 2   \* games created
MaxMoves == 2   \* moves accepted per game
MaxClients == 2 \* clients with a move in flight
MaxPath == 3    \* tiles of a path whose adjacency is scanned

(***************************************************************************)
(* JSON values.  Every value is a record with the fields k (its kind),     *)
(* n (a number's integer part) and s (a string's characters or an array's  *)
(* elements).  k = "fraction" is the non-integer number n + 0.5.           *)
(***************************************************************************)
Num(n)   == [k |-> "number",    n |-> n, s |-> <<>>]
Frac(n)  == [k |-> "fraction",  n |-> n, s |-> <<>>]
Str(s)   == [k |-> "string",    n |-> 0, s |-> s]
Arr(s)   == [k |-> "array",     n |-> 0, s |-> s]
True     == [k |-> "boolean",   n |-> 1, s |-> <<>>]
Null     == [k |-> "null",      n |-> 0, s |-> <<>>]
Obj      == [k |-> "object",    n |-> 0, s |-> <<>>]
Undefined == [k |-> "undefined", n |-> 0, s |-> <<>>]

\* JavaScript truthiness of a JSON value.
Truthy(v) ==
  CASE v.k = "undefined" -> FALSE
    [] v.k = "null"      -> FALSE
    [] v.k = "number"    -> v.n # 0
    [] v.k = "string"    -> v.s # <<>>
    [] OTHER             -> TRUE

Digits == <<"0", "1", "2", "3", "4", "5", "6", "7", "8", "9">>

IsDigit(c) == \E d \in 1..10 : Digits[d] = c

DigitValue(c) == (CHOOSE d \in 1..10 : Digits[d] = c) - 1

\* The decimal numeral of a string of digits.
RECURSIVE Numeral(_)
Numeral(s) ==
  IF s = <<>> THEN 0
  ELSE 10 * Numeral(SubSeq(s, 1, Len(s) - 1)) + DigitValue(s[Len(s)])

\* isNaN(v): whether Number(v) is NaN.
IsNaN(v) ==
  CASE v.k = "string"    -> \E i \in 1..Len(v.s) : ~IsDigit(v.s[i])
    [] v.k = "undefined" -> TRUE
    [] v.k = "object"    -> TRUE
    [] v.k = "array"     -> TRUE
    [] OTHER             -> FALSE

\* Number(v) for a value that is not NaN and not a fraction.
ToNumber(v) ==
  CASE v.k = "string" -> Numeral(v.s)
    [] OTHER          -> v.n

\* String(n) for n in 0..9.
DigitString(n) == <<Digits[n + 1]>>

\* tile - n: always numeric.
Minus(tile, n) == Num(ToNumber(tile) - n)

\* tile + n: concatenation when tile is a string, addition otherwise.
Plus(tile, n) ==
  IF tile.k = "string" THEN Str(tile.s \o DigitString(n))
  ELSE Num(ToNumber(tile) + n)

\* a === b
StrictEq(a, b) == a.k = b.k /\ a.n = b.n /\ a.s = b.s

(***************************************************************************)
(* Letters and words.  A string is the sequence of its characters.         *)
(***************************************************************************)
Lower == <<"a", "b", "c", "d", "e", "f", "g", "h", "i", "j", "k", "l", "m", "n", "o", "p">>
Upper == <<"A", "B", "C", "D", "E", "F", "G", "H", "I", "J", "K", "L", "M", "N", "O", "P">>

\* The upper-case letter of each lower-case letter.
UpperOf == [c \in {Lower[i] : i \in 1..Len(Lower)} |->
             Upper[CHOOSE i \in 1..Len(Lower) : Lower[i] = c]]

\* char.toUpperCase() of one character.
UpperChar(c) == IF c \in DOMAIN UpperOf THEN UpperOf[c] ELSE c

\* word.toUpperCase()
toUpperCase(word) == [i \in 1..Len(word) |-> UpperChar(word[i])]

\* strings.join("")
RECURSIVE join(_)
join(strings) ==
  IF strings = <<>> THEN <<>> ELSE Head(strings) \o join(Tail(strings))

(***************************************************************************)
(* Helpers (server.js:106-169).                                            *)
(***************************************************************************)
BoardSize == 16
MinTile == 1
MaxTile == 16
MinLength == 3

\* boardIsValid : boardWrapper -> Boolean.  board is boardWrapper.board.
boardIsValid(board) ==
  /\ Truthy(board)
  /\ board.k = "array"
  /\ Len(board.s) = BoardSize
  /\ \A i \in 1..Len(board.s) : board.s[i].k = "string" /\ Len(board.s[i].s) = 1

\* dictIsValid : dictWrapper -> Boolean.  words is dictWrapper.words.
dictIsValid(words) ==
  /\ Truthy(words)
  /\ words.k = "array"
  /\ \A i \in 1..Len(words.s) : words.s[i].k = "string"

\* tileIsValid : Number -> Boolean
tileIsValid(tile) ==
  /\ ~IsNaN(tile)
  /\ tile.k # "fraction"
  /\ ToNumber(tile) >= MinTile /\ ToNumber(tile) <= MaxTile

\* tilesToWord : [Number] -> Game -> String.  The board holds 16 strings.
tilesToWord(tiles, game) ==
  toUpperCase(join([i \in 1..Len(tiles) |-> game.board[ToNumber(tiles[i])]]))

\* Mutant of isConsecutiveNeighbor: no diagonal steps.
isConsecutiveNeighborOrthogonal(tile, index, tiles) ==
  IF index = 1 THEN TRUE
  ELSE LET lastTile == tiles[index - 1]
       IN \/ StrictEq(Minus(tile, 4), lastTile)
          \/ StrictEq(Plus(tile, 4), lastTile)
          \/ StrictEq(Minus(tile, 1), lastTile)
          \/ StrictEq(Plus(tile, 1), lastTile)

\* Mutant of isConsecutiveNeighbor: the same offsets, refused when the
\* step leaves the neighbouring rows or columns of the 4 x 4 grid.
isConsecutiveNeighborOnGrid(tile, index, tiles) ==
  IF index = 1 THEN TRUE
  ELSE LET lastTile == tiles[index - 1]
           rows == ((tile.n - 1) \div 4) - ((lastTile.n - 1) \div 4)
           cols == ((tile.n - 1) % 4) - ((lastTile.n - 1) % 4)
       IN /\ \E offset \in {1, 3, 4, 5} :
               \/ StrictEq(Minus(tile, offset), lastTile)
               \/ StrictEq(Plus(tile, offset), lastTile)
          /\ rows \in {-1, 0, 1}
          /\ cols \in {-1, 0, 1}

\* isConsecutiveNeighbor : Number -> Number -> [Number] -> Boolean.
\* index counts from 1 here, from 0 in the source.
isConsecutiveNeighbor(tile, index, tiles) ==
  IF index = 1 THEN TRUE
  ELSE LET lastTile == tiles[index - 1]
       IN \/ StrictEq(Minus(tile, 4), lastTile)
          \/ StrictEq(Plus(tile, 4), lastTile)
          \/ StrictEq(Minus(tile, 1), lastTile)
          \/ StrictEq(Plus(tile, 1), lastTile)
          \/ StrictEq(Minus(tile, 3), lastTile)
          \/ StrictEq(Plus(tile, 3), lastTile)
          \/ StrictEq(Minus(tile, 5), lastTile)
          \/ StrictEq(Plus(tile, 5), lastTile)

\* (new Set(tiles)).size
SetSize(tiles) == Cardinality({tiles[i] : i \in 1..Len(tiles)})

\* The part of moveIsAllowed that does not read the game.
moveShapeIsAllowed(tiles) ==
  /\ Len(tiles) >= MinLength
  /\ \A i \in 1..Len(tiles) : isConsecutiveNeighbor(tiles[i], i, tiles)
  /\ Len(tiles) = SetSize(tiles)

\* Mutant of moveIsAllowed: the word is not looked up in the dictionary.
moveIsAllowedAnyWord(tiles, game) == moveShapeIsAllowed(tiles)

\* moveIsAllowed : [Number] -> Game -> Boolean
moveIsAllowed(tiles, game) ==
  /\ moveShapeIsAllowed(tiles)
  /\ tilesToWord(tiles, game) \in game.dict[1]

\* Mutant of moveExists: compares the paths, not the words they spell.
moveExistsByPath(tiles, game) ==
  \E m \in 1..Len(game.moves) : game.moves[m] = tiles

\* moveExists : [Number] -> Game -> Boolean
moveExists(tiles, game) ==
  \E m \in 1..Len(game.moves) :
    tilesToWord(game.moves[m], game) = tilesToWord(tiles, game)

\* Math.pow(2, n) for n >= 0
RECURSIVE Pow2(_)
Pow2(n) == IF n <= 0 THEN 1 ELSE 2 * Pow2(n - 1)

\* Mutant of points: one point per tile beyond the second.
pointsLinear(tiles) == Len(tiles) - 2

\* The score of an accepted move.
points(tiles) == Pow2(Len(tiles) - 3)

\* words.reduce(...): the object whose keys are the uppercased words.
makeDict(words) == {toUpperCase(words[i].s) : i \in 1..Len(words)}

\* Mutant of makeBoard: the letters are stored as given.
makeBoardAsGiven(board) == [i \in 1..Len(board) |-> board[i].s]

\* boardWrapper.board.map(char => char.toUpperCase())
makeBoard(board) == [i \in 1..Len(board) |-> toUpperCase(board[i].s)]

(***************************************************************************)
(* Request inputs.                                                         *)
(***************************************************************************)
\* A route parameter :gameId: the decimal numeral of i, or a property name.
Index(i) == [k |-> "index", n |-> i, s |-> ""]
Key(name) == [k |-> "key", n |-> 0, s |-> name]

GameIds == {Index(i) : i \in 0..MaxGames} \cup {Key("length"), Key("push")}

Letters(word) == [i \in 1..Len(word) |-> Str(<<word[i]>>)]

\* The board of the documentation's example (server.js:21).
DocBoard == Arr(Letters(Upper))

\* A lower-case board with repeated letters.
LowBoard ==
  Arr(Letters(<<"a", "b", "a", "b",  "b", "a", "b", "a",
                "a", "b", "a", "b",  "b", "a", "b", "a">>))

BoardInputs ==
  { DocBoard, LowBoard,
    Undefined,                                        \* no board property
    Str(Upper),                                       \* a string of 16 letters
    Arr(SubSeq(Letters(Upper), 1, 15)),               \* 15 letters
    Arr(Append(Letters(Upper), Str(<<"Q">>))),        \* 17 letters
    Arr([Letters(Upper) EXCEPT ![3] = Str(<<>>)]),    \* an empty string for a tile
    Arr([Letters(Upper) EXCEPT ![3] = Str(<<"C", "C">>)]),  \* a 2-letter tile
    Arr([Letters(Upper) EXCEPT ![3] = Num(3)]) }      \* a number for a tile

WordsA == Arr(<<Str(<<"f", "a", "b">>), Str(<<"F", "A", "B">>),
                Str(<<"L", "o", "a", "d">>), Str(<<"d", "e", "f">>),
                Str(<<"a", "b", "a">>), Str(<<"a", "b", "c", "g", "f", "e">>)>>)
WordsB == Arr(<<Str(<<"A", "B", "A">>), Str(<<"a", "b", "c", "g">>),
                Str(<<"A", "B", "C", "G", "F">>)>>)

DictInputs ==
  { WordsA, WordsB,
    Arr(<<>>),                                        \* no words
    Undefined,                                        \* no words property
    Arr(<<Str(<<"f", "a", "b">>), Num(5)>>) }         \* a number for a word

Tiles(ns) == Arr([i \in 1..Len(ns) |-> Num(ns[i])])

MoveInputs ==
  { Obj,                                              \* no array in the body
    Tiles(<<>>),
    Tiles(<<6, 1>>),
    Tiles(<<6, 1, 2>>),                               \* test "allowed move"
    Tiles(<<12, 15, 1, 4>>),                          \* test "disallowed move"
    Tiles(<<4, 5, 6>>),
    Tiles(<<1, 2, 1>>),
    Tiles(<<1, 2, 3>>),
    Tiles(<<3, 2, 1>>),
    Tiles(<<1, 2, 17>>),
    Tiles(<<0, 1, 2>>),
    Arr(<<Frac(1), Num(2), Num(3)>>),
    Arr(<<Num(1), Num(2), Null>>),
    Arr(<<Num(1), Num(2), True>>),
    Arr(<<Num(1), Num(2), Str(<<"6">>)>>),
    Tiles(<<1, 2, 3, 7>>),
    Tiles(<<1, 2, 3, 7, 6>>),
    Tiles(<<1, 2, 3, 7, 6, 5>>) }

BasicMoves ==
  { Obj,
    Tiles(<<6, 1>>),
    Tiles(<<6, 1, 2>>),
    Tiles(<<12, 15, 1, 4>>),
    Tiles(<<4, 5, 6>>),
    Tiles(<<1, 2, 3>>) }

BasicDicts == DictInputs \ {WordsB, Arr(<<>>)}

(***************************************************************************)
(* Responses.                                                              *)
(***************************************************************************)
Reply(status, kind) ==
  [status |-> status, kind |-> kind, gameId |-> -1, moveId |-> -1, points |-> 0]

NoDict == <<>>

\* Mutant of Lookup: every index of a game gives the game created last.
LookupLast(gameId) ==
  CASE gameId.k = "index" /\ gameId.n < Len(games) ->
         [k |-> "game", n |-> Len(games), s |-> <<>>]
    [] gameId.k = "index" /\ gameId.n >= Len(games) -> Undefined
    [] gameId.k = "key" /\ gameId.s = "length" -> Num(Len(games))
    [] gameId.k = "key" /\ gameId.s = "push" ->
         [k |-> "function", n |-> 0, s |-> <<>>]

\* games[gameId]: an element, an own or inherited property, or undefined.
Lookup(gameId) ==
  CASE gameId.k = "index" /\ gameId.n < Len(games) ->
         [k |-> "game", n |-> gameId.n + 1, s |-> <<>>]
    [] gameId.k = "index" /\ gameId.n >= Len(games) -> Undefined
    [] gameId.k = "key" /\ gameId.s = "length" -> Num(Len(games))
    [] gameId.k = "key" /\ gameId.s = "push" ->
         [k |-> "function", n |-> 0, s |-> <<>>]

\* Mutant of DictOf: a dictionary without words counts as no dictionary.
DictOfNonEmpty(game) ==
  CASE game.k = "game" /\ games[game.n].dict # <<{}>> -> games[game.n].dict
    [] game.k = "function" /\ pushDict # <<{}>>       -> pushDict
    [] OTHER                                          -> NoDict

\* game.dict, for whatever games[gameId] gave.
DictOf(game) ==
  CASE game.k = "game"     -> games[game.n].dict
    [] game.k = "function" -> pushDict
    [] OTHER               -> NoDict

(***************************************************************************)
(* Controllers (server.js:66-104).                                         *)
(***************************************************************************)
\* No path is being scanned.
NoScan == [tiles |-> <<>>, index |-> 0, ok |-> TRUE]

\* The clients that send moves while other requests are being served.
Clients == 1..MaxClients

\* A client that has sent no move yet.
NoCall == [pc |-> "idle", tiles |-> Undefined, seen |-> 0, verdict |-> "none"]

Init ==
  /\ games = <<>>
  /\ pushDict = NoDict
  /\ res = Reply(0, "none")
  /\ calls = [c \in Clients |-> NoCall]
  /\ running = 0
  /\ scan = NoScan

\* Mutant of nextGameId: identifiers counted from 1.
nextGameIdFromOne == Len(games) + 1

\* const gameId = games.length
nextGameId == Len(games)

createGame(board) ==
  IF ~boardIsValid(board)
  THEN /\ res' = Reply(400, "InvalidBoard")
       /\ UNCHANGED <<games, pushDict>>
  ELSE /\ Len(games) < MaxGames
       /\ games' = Append(games, [dict |-> NoDict,
                                  board |-> makeBoard(board.s),
                                  moves |-> <<>>])
       /\ res' = [Reply(201, "Created") EXCEPT !.gameId = nextGameId]
       /\ UNCHANGED pushDict

\* Mutant of setGameDict: the dictionary is stored before it is validated.
setGameDictUnchecked(gameId, words) ==
  LET game == Lookup(gameId) IN
  IF ~Truthy(game)
  THEN /\ res' = Reply(404, "NotFound")
       /\ UNCHANGED <<games, pushDict>>
  ELSE /\ res' = IF dictIsValid(words) THEN Reply(204, "NoContent")
                 ELSE Reply(400, "InvalidDictionary")
       /\ CASE game.k = "game" /\ words.k = "array" ->
                 /\ games' = [games EXCEPT ![game.n].dict = <<makeDict(words.s)>>]
                 /\ UNCHANGED pushDict
            [] OTHER -> UNCHANGED <<games, pushDict>>

\* Mutant of setGameDict: the words are added to the dictionary the game
\* has.
setGameDictMerging(gameId, words) ==
  LET game == Lookup(gameId) IN
  IF ~Truthy(game)
  THEN /\ res' = Reply(404, "NotFound")
       /\ UNCHANGED <<games, pushDict>>
  ELSE IF ~dictIsValid(words)
  THEN /\ res' = Reply(400, "InvalidDictionary")
       /\ UNCHANGED <<games, pushDict>>
  ELSE /\ res' = Reply(204, "NoContent")
       /\ CASE game.k = "game" ->
                 /\ games' = [games EXCEPT ![game.n].dict =
                      IF @ = NoDict THEN <<makeDict(words.s)>>
                      ELSE <<@[1] \cup makeDict(words.s)>>]
                 /\ UNCHANGED pushDict
            [] game.k = "function" ->
                 /\ pushDict' = <<makeDict(words.s)>>
                 /\ UNCHANGED games
            [] OTHER -> UNCHANGED <<games, pushDict>>

setGameDict(gameId, words) ==
  LET game == Lookup(gameId) IN
  IF ~Truthy(game)
  THEN /\ res' = Reply(404, "NotFound")
       /\ UNCHANGED <<games, pushDict>>
  ELSE IF ~dictIsValid(words)
  THEN /\ res' = Reply(400, "InvalidDictionary")
       /\ UNCHANGED <<games, pushDict>>
  ELSE /\ res' = Reply(204, "NoContent")
       /\ CASE game.k = "game" ->
                 /\ games' = [games EXCEPT ![game.n].dict = <<makeDict(words.s)>>]
                 /\ UNCHANGED pushDict
            [] game.k = "function" ->
                 /\ pushDict' = <<makeDict(words.s)>>
                 /\ UNCHANGED games
            [] OTHER -> UNCHANGED <<games, pushDict>>

\* Mutant of moveVerdict: the shape of the move is checked before the
\* dictionary's presence.
moveVerdictShapeFirst(game, tiles) ==
  IF ~Truthy(game) THEN "NotFound"
  ELSE IF tiles.k # "array" \/ \E i \in 1..Len(tiles.s) : ~tileIsValid(tiles.s[i])
  THEN "MalformedMove"
  ELSE IF DictOf(game) = NoDict THEN "DictionaryMissing"
  ELSE IF ~moveShapeIsAllowed(tiles.s) THEN "DisallowedMove"
  ELSE IF game.k = "function" THEN "TypeError"
  ELSE IF ~moveIsAllowed(tiles.s, games[game.n]) THEN "DisallowedMove"
  ELSE IF moveExists(tiles.s, games[game.n]) THEN "DuplicateMove"
  ELSE "Accepted"

\* The checks of makeMove, in their order (server.js:94-98); game is
\* games[gameId].  A function has no board: tilesToWord throws a TypeError.
moveVerdict(game, tiles) ==
  IF ~Truthy(game) THEN "NotFound"
  ELSE IF DictOf(game) = NoDict THEN "DictionaryMissing"
  ELSE IF tiles.k # "array" \/ \E i \in 1..Len(tiles.s) : ~tileIsValid(tiles.s[i])
  THEN "MalformedMove"
  ELSE IF ~moveShapeIsAllowed(tiles.s) THEN "DisallowedMove"
  ELSE IF game.k = "function" THEN "TypeError"
  ELSE IF ~moveIsAllowed(tiles.s, games[game.n]) THEN "DisallowedMove"
  ELSE IF moveExists(tiles.s, games[game.n]) THEN "DuplicateMove"
  ELSE "Accepted"

\* The HTTP status sent with each verdict.
Status(verdict) ==
  CASE verdict = "NotFound"          -> 404
    [] verdict = "DictionaryMissing" -> 403
    [] verdict = "MalformedMove"     -> 400
    [] verdict = "DisallowedMove"    -> 403
    [] verdict = "DuplicateMove"     -> 403
    [] verdict = "TypeError"         -> 500
    [] verdict = "Accepted"          -> 201

\* Mutant of nextMoveId: identifiers counted from 1.
nextMoveIdFromOne(game) == Len(game.moves) + 1

\* const moveId = game.moves.length
nextMoveId(game) == Len(game.moves)

\* Mutant of makeMove: the move is put in front of the history.
makeMoveAtFront(gameId, tiles) ==
  LET game == Lookup(gameId)
      verdict == moveVerdict(game, tiles)
  IN /\ UNCHANGED pushDict
     /\ IF verdict # "Accepted"
        THEN /\ res' = Reply(Status(verdict), verdict)
             /\ UNCHANGED games
        ELSE /\ Len(games[game.n].moves) < MaxMoves
             /\ res' = [Reply(201, "Accepted") EXCEPT
                          !.moveId = nextMoveId(games[game.n]),
                          !.points = points(tiles.s)]
             /\ games' = [games EXCEPT ![game.n].moves = <<tiles.s>> \o @]

makeMove(gameId, tiles) ==
  LET game == Lookup(gameId)
      verdict == moveVerdict(game, tiles)
  IN /\ UNCHANGED pushDict
     /\ IF verdict # "Accepted"
        THEN /\ res' = Reply(Status(verdict), verdict)
             /\ UNCHANGED games
        ELSE /\ Len(games[game.n].moves) < MaxMoves
             /\ res' = [Reply(201, "Accepted") EXCEPT
                          !.moveId = nextMoveId(games[game.n]),
                          !.points = points(tiles.s)]
             /\ games' = [games EXCEPT ![game.n].moves = Append(@, tiles.s)]

\* The requests of clients that send boards, gameIds, word lists and moves
\* from the given sets.
Requests(boards, gameIds, dicts, moves) ==
  \/ \E board \in boards :
       createGame(board) /\ UNCHANGED <<calls, running, scan>>
  \/ \E gameId \in gameIds, words \in dicts :
       setGameDict(gameId, words) /\ UNCHANGED <<calls, running, scan>>
  \/ \E gameId \in gameIds, tiles \in moves :
       makeMove(gameId, tiles) /\ UNCHANGED <<calls, running, scan>>

\* Every kind of request, with a few moves.
Next == Requests(BoardInputs, GameIds, BasicDicts, BasicMoves)

Spec == Init /\ [][Next]_vars

\* Play on the first game, with every move.
NextPlay == Requests({DocBoard, LowBoard}, {Index(0)}, DictInputs, MoveInputs)

PlaySpec == Init /\ [][NextPlay]_vars

\* Play on the first game by clients that attach a dictionary to it once:
\* no valid word list is sent to a game that has a dictionary.
NextOnce ==
  \/ \E board \in {DocBoard, LowBoard} :
       createGame(board) /\ UNCHANGED <<calls, running, scan>>
  \/ \E words \in DictInputs :
       /\ DictOf(Lookup(Index(0))) # NoDict => ~dictIsValid(words)
       /\ setGameDict(Index(0), words)
       /\ UNCHANGED <<calls, running, scan>>
  \/ \E tiles \in MoveInputs :
       makeMove(Index(0), tiles) /\ UNCHANGED <<calls, running, scan>>

OnceSpec == Init /\ [][NextOnce]_vars

(***************************************************************************)
(* Moves in flight.  bodyParser.json (server.js:10) reads a request's body *)
(* asynchronously, so several moves can be on their way at once.  makeMove *)
(* itself (server.js:90-104) has no await and no callback: once it has     *)
(* started, no other handler starts before it returns.  Its run is cut in  *)
(* two steps here, the checks (91-98) and the push with the reply (99-103),*)
(* to show what that buys.                                                 *)
(***************************************************************************)
\* Mutant of handlerMayStart: a handler may start while another one has
\* not returned.
handlerMayStartAnytime == TRUE

\* The event loop calls a handler only when no handler is running.
handlerMayStart == running = 0

\* The number of moves of the first game, 0 when it does not exist.
movesSoFar == IF Len(games) = 0 THEN 0 ELSE Len(games[1].moves)

\* A client sends a move for the first game; the move is in flight.
receiveMove(c, tiles) ==
  /\ calls[c].pc = "idle"
  /\ calls' = [calls EXCEPT ![c] = [pc |-> "sent", tiles |-> tiles,
                                    seen |-> movesSoFar, verdict |-> "none"]]
  /\ UNCHANGED <<games, pushDict, res, running, scan>>

\* makeMove, lines 91-98: the lookup and the checks.
makeMoveChecks(c) ==
  /\ handlerMayStart
  /\ calls[c].pc = "sent"
  /\ calls' = [calls EXCEPT
                ![c].pc = "checked",
                ![c].verdict = moveVerdict(Lookup(Index(0)), calls[c].tiles)]
  /\ running' = c
  /\ UNCHANGED <<games, pushDict, res, scan>>

\* makeMove, lines 94-98 (the return of a failed check) and 99-103 (the
\* push and the reply).
makeMovePush(c) ==
  /\ calls[c].pc = "checked"
  /\ calls' = [calls EXCEPT ![c].pc = "done"]
  /\ running' = 0
  /\ UNCHANGED <<pushDict, scan>>
  /\ IF calls[c].verdict # "Accepted"
     THEN /\ res' = Reply(Status(calls[c].verdict), calls[c].verdict)
          /\ UNCHANGED games
     ELSE /\ Len(games[1].moves) < MaxMoves
          /\ res' = [Reply(201, "Accepted") EXCEPT
                       !.moveId = nextMoveId(games[1]),
                       !.points = points(calls[c].tiles.s)]
          /\ games' = [games EXCEPT ![1].moves = Append(@, calls[c].tiles.s)]

\* The moves the clients send.
ClientMoves ==
  { Tiles(<<1, 2, 3>>), Tiles(<<3, 2, 1>>), Tiles(<<1, 2, 3, 7>>) }

\* One game is set up while clients send it moves.
NextClients ==
  \/ /\ handlerMayStart
     /\ createGame(LowBoard)
     /\ UNCHANGED <<calls, running, scan>>
  \/ /\ handlerMayStart
     /\ setGameDict(Index(0), WordsA)
     /\ UNCHANGED <<calls, running, scan>>
  \/ \E c \in Clients, tiles \in ClientMoves : receiveMove(c, tiles)
  \/ \E c \in Clients : makeMoveChecks(c)
  \/ \E c \in Clients : makeMovePush(c)

ClientSpec == Init /\ [][NextClients]_vars

(***************************************************************************)
(* tiles.every(isConsecutiveNeighbor) (server.js:140) on its own: every    *)
(* calls the function on each element in turn, with the element's index    *)
(* and the array, and stops at the first element it refuses.               *)
(***************************************************************************)
\* The paths scanned: every path of 1..MaxPath tiles in 1..16, and the
\* disallowed move of the tests.
ScanPaths ==
  UNION {[1..n -> {Num(tile) : tile \in MinTile..MaxTile}] : n \in 1..MaxPath}
    \cup {Tiles(<<12, 15, 1, 4>>).s}

ScanInit ==
  /\ games = <<>>
  /\ pushDict = NoDict
  /\ res = Reply(0, "none")
  /\ calls = [c \in Clients |-> NoCall]
  /\ running = 0
  /\ scan \in {[tiles |-> tiles, index |-> 0, ok |-> TRUE] : tiles \in ScanPaths}

\* every looks at the next element.
everyStep ==
  /\ scan.ok
  /\ scan.index < Len(scan.tiles)
  /\ scan' = [scan EXCEPT
                !.index = @ + 1,
                !.ok = isConsecutiveNeighbor(scan.tiles[scan.index + 1],
                                             scan.index + 1, scan.tiles)]
  /\ UNCHANGED <<games, pushDict, res, calls, running>>

ScanSpec == ScanInit /\ [][everyStep]_vars

(***************************************************************************)
(* The specification's notions, used to state its claims.                  *)
(***************************************************************************)
\* A game with this identifier exists.
GameExists(gameId) == gameId.k = "index" /\ gameId.n < Len(games)

\* The game with this identifier.
GameOf(gameId) == games[gameId.n + 1]

\* The words spelled by the moves of a game's history.
WordsPlayed(game) == {tilesToWord(game.moves[m], game) : m \in 1..Len(game.moves)}

\* The shape a move must have: a sequence of 3 or more tiles, each in 1..16.
ShapeOk(tiles) ==
  /\ tiles.k = "array"
  /\ Len(tiles.s) >= 3
  /\ \A i \in 1..Len(tiles.s) : tileIsValid(tiles.s[i])

\* Rule legality of the path: adjacency and distinct tiles.
PathLegal(tiles) ==
  /\ \A i \in 1..Len(tiles.s) : isConsecutiveNeighbor(tiles.s[i], i, tiles.s)
  /\ \A i, j \in 1..Len(tiles.s) : i # j => tiles.s[i] # tiles.s[j]

\* Rule legality: adjacency, distinct tiles, the derived word in the dictionary.
Legal(tiles, game) ==
  /\ PathLegal(tiles)
  /\ tilesToWord(tiles.s, game) \in game.dict[1]

\* The moves that pass the shape check and the path's part of rule legality.
LegalPaths == {tiles \in MoveInputs : ShapeOk(tiles) /\ PathLegal(tiles)}

\* The outcome of SubmitMove(gameId, tiles): the error of the first failing check.
ExpectedVerdict(gameId, tiles) ==
  IF ~GameExists(gameId) THEN "NotFound"
  ELSE IF GameOf(gameId).dict = NoDict THEN "DictionaryMissing"
  ELSE IF ~ShapeOk(tiles) THEN "MalformedMove"
  ELSE IF ~Legal(tiles, GameOf(gameId)) THEN "DisallowedMove"
  ELSE IF tilesToWord(tiles.s, GameOf(gameId)) \in WordsPlayed(GameOf(gameId))
  THEN "DuplicateMove"
  ELSE "Accepted"

\* The game whose history a step extends, and the move it appends.
Extends(i) ==
  /\ i \in 1..Len(games)
  /\ Len(games') = Len(games)
  /\ Len(games'[i].moves) = Len(games[i].moves) + 1
  /\ SubSeq(games'[i].moves, 1, Len(games[i].moves)) = games[i].moves

Appended(i) == games'[i].moves[Len(games'[i].moves)]

\* Row and column of a tile on the 4x4 row-major layout.
Row(n) == ((n - 1) \div 4) + 1
Col(n) == ((n - 1) % 4) + 1
Dist(a, b) == IF a >= b THEN a - b ELSE b - a

\* The 8 king-move neighbours.
GridAdjacent(a, b) ==
  /\ a # b
  /\ Dist(Row(a), Row(b)) <= 1
  /\ Dist(Col(a), Col(b)) <= 1

MoveErrors ==
  {"NotFound", "DictionaryMissing", "MalformedMove", "DisallowedMove",
   "DuplicateMove", "TypeError"}

(***************************************************************************)
(* Claims.                                                                 *)
(***************************************************************************)

\* C1: every SubmitMove(gameId, tiles) returns the error of the first
\* failing check in the order NotFound, DictionaryMissing, MalformedMove,
\* DisallowedMove, DuplicateMove, and is accepted iff no check fails.
C1_FirstFailingCheck ==
  [][\A gameId \in GameIds, tiles \in MoveInputs :
       makeMove(gameId, tiles) => res'.kind = ExpectedVerdict(gameId, tiles)]_vars

\* C2: once a move spelling W is in a game's history, a later legal move on
\* that game deriving W (by the same or another path) fails with
\* DuplicateMove and is not appended; no two moves of a history spell the
\* same word.
C2_NoRepeatedWord ==
  \A g \in 1..Len(games) : \A m, n \in 1..Len(games[g].moves) :
    m # n => tilesToWord(games[g].moves[m], games[g])
               # tilesToWord(games[g].moves[n], games[g])

C2_DuplicateLaw ==
  /\ []C2_NoRepeatedWord
  /\ [][\A gameId \in GameIds :
          (GameExists(gameId) /\ GameOf(gameId).dict # NoDict) =>
            \A played \in {WordsPlayed(GameOf(gameId))} :
              \A tiles \in LegalPaths :
                \A word \in {tilesToWord(tiles.s, GameOf(gameId))} :
                  ( /\ word \in played
                    /\ word \in GameOf(gameId).dict[1]
                    /\ makeMove(gameId, tiles) )
                  => res'.kind = "DuplicateMove" /\ games' = games]_vars

\* C2 witness: a move was refused as a duplicate in a game with history.
C2_Witness ==
  /\ res.kind = "DuplicateMove"
  /\ Len(games) >= 1
  /\ Len(games[1].moves) >= 1

\* C3: a game's history changes only by an accepted move, which is appended
\* at the end and returns as moveId its 0-based position: the moveIds of a
\* game are 0, 1, 2, ... in acceptance order whatever else happens between.
C3_MoveIds ==
  [][ /\ \A i \in 1..Len(games) :
           games'[i].moves # games[i].moves =>
             /\ res'.kind = "Accepted"
             /\ Extends(i)
             /\ res'.moveId = Len(games[i].moves)
             /\ games'[i].moves[res'.moveId + 1] = Appended(i)
      /\ res'.kind = "Accepted" => \E i \in 1..Len(games) : Extends(i)
    ]_vars

\* C3 witness: the second move accepted in the second game, after moves in
\* the first.
C3_Witness ==
  /\ res.kind = "Accepted"
  /\ res.moveId = 1
  /\ Len(games) = 2
  /\ Len(games[1].moves) >= 1
  /\ Len(games[2].moves) = 2

\* C4: every accepted move returns points = 2^(length(tiles) - 3).
C4_Scoring ==
  [][res'.kind = "Accepted" =>
       \E i \in 1..Len(games) :
         /\ Extends(i)
         /\ Len(Appended(i)) >= 3
         /\ res'.points = 2 ^ (Len(Appended(i)) - 3)]_vars

\* C4 witness: a path of length 6 was accepted and scored 8.
C4_Witness ==
  /\ res.kind = "Accepted"
  /\ res.points = 8
  /\ \E m \in 1..Len(games[1].moves) : Len(games[1].moves[m]) = 6

\* C5: on an existing game with a dictionary, a move of fewer than 3
\* integers, each in 1..16, fails with MalformedMove.
C5_ShortIsMalformed ==
  [][\A gameId \in GameIds :
       (GameExists(gameId) /\ GameOf(gameId).dict # NoDict) =>
         \A tiles \in MoveInputs :
           ( /\ tiles.k = "array"
             /\ Len(tiles.s) < 3
             /\ \A i \in 1..Len(tiles.s) :
                  tiles.s[i].k = "number" /\ tiles.s[i].n \in 1..16
             /\ makeMove(gameId, tiles) )
           => res'.kind = "MalformedMove"]_vars

\* C6: a SubmitMove that returns an error leaves every history unchanged,
\* and an AttachDictionary that returns NotFound or InvalidDictionary leaves
\* every dictionary unchanged.
C6_NoPartialMutation ==
  [][res'.kind \in MoveErrors \cup {"InvalidDictionary"} => games' = games]_vars

\* C6 witness: an attach failed on a game that has a dictionary and a move.
C6_Witness ==
  /\ res.kind = "InvalidDictionary"
  /\ Len(games) >= 1
  /\ games[1].dict # NoDict
  /\ Len(games[1].moves) >= 1

\* C7: the k-th successful CreateGame returns gameId k and appends one game;
\* a CreateGame rejected with InvalidBoard adds no game; nothing else
\* changes the number of games.
C7_GameIds ==
  [][ /\ res'.kind = "Created" =>
           /\ res'.gameId = Len(games)
           /\ Len(games') = Len(games) + 1
           /\ SubSeq(games', 1, Len(games)) = games
      /\ res'.kind = "InvalidBoard" => games' = games
      /\ Len(games') # Len(games) => res'.kind = "Created"
    ]_vars

\* C7 witness: the second game was created with gameId 1.
C7_Witness ==
  /\ res.kind = "Created"
  /\ res.gameId = 1
  /\ Len(games) = 2

\* C8: while a game has no dictionary, every SubmitMove on it fails with
\* DictionaryMissing whatever the tiles are, and its history stays empty.
C8_PendingEmpty ==
  \A g \in 1..Len(games) : games[g].dict = NoDict => games[g].moves = <<>>

C8_PendingForbidsMoves ==
  /\ []C8_PendingEmpty
  /\ [][\A gameId \in GameIds :
          (GameExists(gameId) /\ GameOf(gameId).dict = NoDict) =>
            \A tiles \in MoveInputs :
              makeMove(gameId, tiles)
              => res'.kind = "DictionaryMissing" /\ games' = games]_vars

\* C8 witness: a move on the first game was refused for its missing
\* dictionary (under PlaySpec every move is addressed to the first game).
C8_Witness ==
  /\ res.kind = "DictionaryMissing"
  /\ Len(games) >= 1
  /\ games[1].dict = NoDict

\* C9: AttachDictionary on a gameId for which no game exists fails with
\* NotFound, whatever the word list, and changes no game.
C9_AttachNotFound ==
  [][\A gameId \in GameIds :
       ~GameExists(gameId) =>
         \A words \in DictInputs :
           setGameDict(gameId, words)
           => res'.kind = "NotFound" /\ games' = games]_vars

\* C10: in every accepted move each consecutive pair of tiles is
\* grid-adjacent on the 4x4 layout (one of the 8 king-move neighbours).
C10_GridAdjacent ==
  \A g \in 1..Len(games) : \A m \in 1..Len(games[g].moves) :
    \A i \in 2..Len(games[g].moves[m]) :
      GridAdjacent(ToNumber(games[g].moves[m][i - 1]),
                   ToNumber(games[g].moves[m][i]))

\* A board input as the specification wants it: a sequence of exactly 16
\* single-character strings.
BoardOk(board) ==
  /\ board.k = "array"
  /\ Len(board.s) = 16
  /\ \A i \in 1..Len(board.s) : board.s[i].k = "string" /\ Len(board.s[i].s) = 1

\* c is the upper-case form of the letter d.
IsUpperOf(c, d) ==
  /\ \E i \in 1..Len(Upper) : Upper[i] = c
  /\ c = d \/ \E i \in 1..Len(Upper) : Upper[i] = c /\ Lower[i] = d

\* C11: CreateGame fails with InvalidBoard for every input that is not a
\* sequence of exactly 16 single-character strings and changes nothing;
\* every other input succeeds and the stored board is the input with each
\* letter in upper case.
C11_BoardValidation ==
  [][\A board \in BoardInputs :
       createGame(board) =>
         IF BoardOk(board)
         THEN /\ res'.kind = "Created"
              /\ Len(games') = Len(games) + 1
              /\ \A i \in 1..16 :
                   /\ Len(games'[Len(games')].board[i]) = 1
                   /\ IsUpperOf(games'[Len(games')].board[i][1], board.s[i].s[1])
         ELSE /\ res'.kind = "InvalidBoard"
              /\ games' = games]_vars

\* C11 witness: the lower-case board was stored in upper case.
C11_Witness ==
  /\ res.kind = "Created"
  /\ games[Len(games)].board[1] = <<"A">>
  /\ games[Len(games)].board[3] = <<"A">>
  /\ games[Len(games)].board[16] = <<"A">>

\* The calls that were answered Accepted or DuplicateMove for this word.
AnsweredFor(word) ==
  { c \in Clients :
      /\ calls[c].pc = "done"
      /\ calls[c].verdict \in {"Accepted", "DuplicateMove"}
      /\ tilesToWord(calls[c].tiles.s, games[1]) = word }

\* C12: of the moves in flight for one game that derive the same legal
\* word, exactly one is accepted and every other one is answered
\* DuplicateMove; the history holds the word once, however the handlers
\* are scheduled.
C12_AtomicCheckAndAppend ==
  \A c \in Clients :
    (calls[c].pc = "done" /\ calls[c].verdict \in {"Accepted", "DuplicateMove"})
    => \A word \in {tilesToWord(calls[c].tiles.s, games[1])} :
         /\ Cardinality({d \in AnsweredFor(word) :
                           calls[d].verdict = "Accepted"}) = 1
         /\ Cardinality({m \in 1..Len(games[1].moves) :
                           tilesToWord(games[1].moves[m], games[1]) = word}) = 1

\* C12 witness: two clients sent the same unused word by different paths
\* while the history was empty; one was accepted, the other refused.
C12_Witness ==
  /\ calls[1].pc = "done" /\ calls[2].pc = "done"
  /\ calls[1].seen = 0 /\ calls[2].seen = 0
  /\ calls[1].tiles # calls[2].tiles
  /\ {calls[1].verdict, calls[2].verdict} = {"Accepted", "DuplicateMove"}

\* C13 as stated: on the disallowed move of the tests the step 12 to 15 is
\* the one refused, and the steps 6 to 1 and 1 to 2 are accepted.
C13_StepsAsClaimed ==
  /\ (scan.tiles = Tiles(<<12, 15, 1, 4>>).s /\ scan.index >= 2)
       => (scan.index = 2 /\ ~scan.ok)
  /\ scan.tiles = Tiles(<<6, 1, 2>>).s => scan.ok

\* C13, amended: on the disallowed move of the tests the step 12 to 15 is
\* accepted (offset +3) and the step 15 to 1 is the one refused, so the
\* scan never reaches tile 4; the steps 6 to 1 and 1 to 2 are accepted.
\* The check reads the path only, no game and no dictionary.
C13_StepsOfTheTestedPaths ==
  /\ scan.tiles = Tiles(<<12, 15, 1, 4>>).s =>
       /\ scan.index <= 3
       /\ scan.index <= 2 => scan.ok
       /\ scan.index = 3 => ~scan.ok
  /\ scan.tiles = Tiles(<<6, 1, 2>>).s => scan.ok

\* C13 witness: the scan of 12, 15, 1, 4 stopped at its third tile.
C13_Witness ==
  /\ scan.tiles = Tiles(<<12, 15, 1, 4>>).s
  /\ scan.index = 3
  /\ ~scan.ok

\* The offsets the specification lists.
OffsetOk(a, b) == Dist(a, b) \in {1, 3, 4, 5}

IsUpperWordOf(word, given) ==
  /\ Len(word) = Len(given)
  /\ \A j \in 1..Len(word) : IsUpperOf(word[j], given[j])

\* dict is exactly the set of the upper-case forms of the words given.
IsDictOf(dict, words) ==
  /\ dict # NoDict
  /\ \A i \in 1..Len(words.s) : \E word \in dict[1] : IsUpperWordOf(word, words.s[i].s)
  /\ \A word \in dict[1] : \E i \in 1..Len(words.s) : IsUpperWordOf(word, words.s[i].s)

\* C15: a successful AttachDictionary on a game leaves it with exactly the
\* set of the upper-case forms of the words given, whatever dictionary it
\* had; on a game that holds that very set already it changes nothing.
C15_DictionaryReplaced ==
  [][(res'.kind = "NoContent" /\ GameExists(Index(0))) =>
       \A words \in DictInputs :
         setGameDict(Index(0), words)
         => /\ IsDictOf(games'[1].dict, words)
            /\ IsDictOf(games[1].dict, words) => games' = games]_vars

\* C15 witness: the first game holds the three words of the second list,
\* and in its history a word of the first list that the second lacks; the
\* first list gives FAB twice, in two cases.
C15_Witness ==
  /\ res.kind = "NoContent"
  /\ Len(games) >= 1
  /\ IsDictOf(games[1].dict, WordsB)
  /\ Cardinality(games[1].dict[1]) = 3
  /\ Len(games[1].moves) >= 1
  /\ tilesToWord(games[1].moves[1], games[1]) = <<"F", "A", "B">>

\* No history of an existing game changes in the step.
HistoriesKept == \A i \in 1..Len(games) : games'[i].moves = games[i].moves

\* C16: a step that changes a history is no CreateGame and no
\* AttachDictionary; it is an accepted SubmitMove on that game and leaves
\* the history extended by exactly the submitted path, at its end.  So a
\* history, once recorded, is a prefix of every later one.
C16_AppendOnly ==
  [][~HistoriesKept =>
       /\ ~\E board \in BoardInputs : createGame(board)
       /\ ~\E words \in DictInputs : setGameDict(Index(0), words)
       /\ \E tiles \in MoveInputs :
            /\ makeMove(Index(0), tiles)
            /\ res'.kind = "Accepted"
            /\ games'[1].moves = Append(games[1].moves, tiles.s)
            /\ \A i \in 2..Len(games) : games'[i].moves = games[i].moves]_vars

\* C16 witness: a second path was appended behind the first, in a server
\* with two games.
C16_Witness ==
  /\ res.kind = "Accepted"
  /\ Len(games) = 2
  /\ games[1].moves = <<Tiles(<<4, 5, 6>>).s, Tiles(<<6, 1, 2>>).s>>

\* A game that has a dictionary accepts every legal move whose word it has
\* not played yet.
C17_OpenToMoves ==
  \A g \in 1..Len(games) :
    games[g].dict # NoDict =>
      \A played \in {WordsPlayed(games[g])} :
        \A tiles \in LegalPaths :
          ( /\ Legal(tiles, games[g])
            /\ tilesToWord(tiles.s, games[g]) \notin played )
          => moveVerdict(Lookup(Index(g - 1)), tiles) = "Accepted"

\* C17: a game that has a dictionary, be it one without words, keeps
\* having one whatever request follows; no SubmitMove on it returns
\* DictionaryMissing; and it accepts every move that passes the checks,
\* however long its history.
C17_ReadyForever ==
  /\ []C17_OpenToMoves
  /\ [][ /\ \A g \in 1..Len(games) :
             games[g].dict # NoDict => games'[g].dict # NoDict
         /\ ( /\ res'.kind = "DictionaryMissing"
              /\ Len(games) >= 1
              /\ games[1].dict # NoDict )
            => ~\E tiles \in MoveInputs : makeMove(Index(0), tiles)
       ]_vars

\* C17 witness: a move on a game whose dictionary has no words was refused
\* as disallowed.
C17_Witness ==
  /\ Len(games) >= 1
  /\ games[1].dict = <<{}>>
  /\ res.kind = "DisallowedMove"

\* C18: a step that changes a game leaves its board as it was, is no
\* CreateGame, and is no AttachDictionary or SubmitMove addressed to
\* another game or to no game: boards never change, and a request leaves
\* the board, dictionary and history of every game it does not address
\* unchanged.
C18_Isolation ==
  [][\A i \in 1..Len(games) :
       /\ Len(games') >= Len(games)
       /\ games'[i] # games[i] =>
            /\ games'[i].board = games[i].board
            /\ ~\E board \in BoardInputs : createGame(board)
            /\ \A gameId \in GameIds \ {Index(i - 1)} :
                 /\ ~\E words \in BasicDicts : setGameDict(gameId, words)
                 /\ ~\E tiles \in BasicMoves : makeMove(gameId, tiles)]_vars

\* C18 witness: a move was accepted in the first of two games; the second
\* has no dictionary and no move.
C18_Witness ==
  /\ res.kind = "Accepted"
  /\ Len(games) = 2
  /\ Len(games[1].moves) = 1
  /\ games[2].dict = NoDict
  /\ games[2].moves = <<>>

\* C19: every path of every history has between 3 and 16 tiles, each the
\* number of a board position in 1..16 (however the JSON wrote it), no
\* position used twice; so the points of a move, 2^(length - 3), lie
\* between 1 and 8192.
C19_StoredPathsBounded ==
  \A g \in 1..Len(games) : \A m \in 1..Len(games[g].moves) :
    \A path \in {games[g].moves[m]} :
      /\ Len(path) \in 3..16
      /\ \A i \in 1..Len(path) : ToNumber(path[i]) \in 1..16
      /\ \A i, j \in 1..Len(path) :
           i # j => ToNumber(path[i]) # ToNumber(path[j])
      /\ points(path) \in {Pow2(e) : e \in 0..13}

====
